---- MODULE Spec2Model ----
(***************************************************************************)
(* Account REST service (service/routes.py): the HTTP handlers over the    *)
(* account table.  The table is a sequence of rows <<id, name, email>>;    *)
(* every request is one atomic step that records the request, the          *)
(* response and the new table.                                             *)
(***************************************************************************)
EXTENDS Integers, Sequences, FiniteSets, TLC

(* ---------------------------------------------------------------- bounds *)
\* number of ids the store's id sequence hands out before POST is disabled
MaxId == 2

(* ------------------------------------------------------- request domains *)
NoId == 0                      \* no "id" key in a body / no id in the path
Missing == "<missing>"         \* a key that is absent from the JSON body
NoHeader == "<none>"           \* request.headers.get("Content-Type") is None
JSON == "application/json"
JSONCharset == "application/json; charset=utf-8"
TextPlain == "text/plain"

PathIds == 1..MaxId
Names == {"alice", "bob"}
Emails == {"a@x.org", "b@x.org"}
ContentTypes == {NoHeader, JSON, JSONCharset, TextPlain}
Bodies == [id : {NoId, 2}, name : Names \cup {Missing}, email : Emails \cup {Missing}]
NoBody == [id |-> NoId, name |-> Missing, email |-> Missing]

(* ------------------------------------------------------------- responses *)
HTTP_200_OK == 200
HTTP_201_CREATED == 201
HTTP_204_NO_CONTENT == 204
HTTP_400_BAD_REQUEST == 400
HTTP_404_NOT_FOUND == 404
HTTP_415_UNSUPPORTED_MEDIA_TYPE == 415
HTTP_500_INTERNAL_SERVER_ERROR == 500

\* A response: status, the account representations of the JSON payload,
\* the id the Location header names (NoId: no header), and the text of the
\* payload that is not an account (status value, service name, message).
Reply(st, accts, loc, txt) == [status |-> st, accounts |-> accts, location |-> loc, text |-> txt]

\* flask.abort(code, description)
abort(code, description) == Reply(code, <<>>, NoId, description)

(* ------------------------------------------------- Account and its store *)
NotFound == <<>>               \* Account.find's "no such row" result
NewAccount == <<NoId, "", "">> \* Account(): no id yet

\* Account.serialize: the row as a key-value representation
serialize(account) == [id |-> account[1], name |-> account[2], email |-> account[3]]

\* Account.deserialize: assigns the fields one after the other from the
\* body, never the id; a missing key raises KeyError at the point it is read
deserialize(account, data) ==
  IF data.name = Missing
    THEN [raised |-> "KeyError", account |-> account]
  ELSE IF data.email = Missing
    THEN [raised |-> "KeyError", account |-> <<account[1], data.name, account[3]>>]
  ELSE [raised |-> "", account |-> <<account[1], data.name, data.email>>]

\* Account.find(account_id): the row with that id, or NotFound
find(table, account_id) ==
  IF \E i \in 1..Len(table) : table[i][1] = account_id
    THEN table[CHOOSE i \in 1..Len(table) : table[i][1] = account_id]
    ELSE NotFound

\* Account.create: inserts the row under the next id of the sequence
create(table, nextval, account) == Append(table, <<nextval, account[2], account[3]>>)

\* Account.update: persists the in-place changes of the row with the account's id
update(table, account) ==
  [i \in 1..Len(table) |-> IF table[i][1] = account[1] THEN account ELSE table[i]]

\* Account.delete: removes the account's row
delete(table, account) == SelectSeq(table, LAMBDA r : r[1] # account[1])

\* Account.all: every row
all(table) == table

(* ------------------------------------------------------ request handling *)
\* request.get_json(): the body when the mimetype is application/json
\* (parameters such as charset are not part of the mimetype), else it fails
is_json(content_type) == content_type \in {JSON, JSONCharset}

\* check_content_type: TRUE when the handler goes on, FALSE when it aborts 415
check_content_type(content_type, media_type) ==
  content_type # NoHeader /\ content_type = media_type

\* the except clauses shared by the handlers: KeyError -> 400, every other
\* exception (the HTTPException of an abort in the try body included) -> 500
except_clauses(raised) ==
  IF raised = "KeyError"
    THEN abort(HTTP_400_BAD_REQUEST, "Invalid input: missing required fields")
    ELSE abort(HTTP_500_INTERNAL_SERVER_ERROR, "Internal server error")

\* except clause of the handlers that catch Exception only
except_exception(raised) == abort(HTTP_500_INTERNAL_SERVER_ERROR, "Internal server error")

health_Down == Reply(HTTP_500_INTERNAL_SERVER_ERROR, <<>>, NoId, "OK")

health == Reply(HTTP_200_OK, <<>>, NoId, "OK")

root_index == Reply(HTTP_200_OK, <<>>, NoId, "Account REST API Service 1.0")

\* variant: the Location header names the id after the created one
create_accounts_WrongLocation(table, nextval, content_type, data) ==
  IF ~check_content_type(content_type, JSON)
    THEN [response |-> abort(HTTP_415_UNSUPPORTED_MEDIA_TYPE, "Content-Type must be application/json"),
          table |-> table, nextval |-> nextval]
  ELSE LET d == deserialize(NewAccount, data) IN
    IF d.raised # ""
      THEN [response |-> except_clauses(d.raised), table |-> table, nextval |-> nextval]
      ELSE LET created == create(table, nextval, d.account)
               account == created[Len(created)]
           IN [response |-> Reply(HTTP_201_CREATED, <<serialize(account)>>, account[1] + 1, ""),
               table |-> created, nextval |-> nextval + 1]

create_accounts(table, nextval, content_type, data) ==
  IF ~check_content_type(content_type, JSON)
    THEN [response |-> abort(HTTP_415_UNSUPPORTED_MEDIA_TYPE, "Content-Type must be application/json"),
          table |-> table, nextval |-> nextval]
  ELSE LET d == deserialize(NewAccount, data) IN
    IF d.raised # ""
      THEN [response |-> except_clauses(d.raised), table |-> table, nextval |-> nextval]
      ELSE LET created == create(table, nextval, d.account)
               account == created[Len(created)]
           IN [response |-> Reply(HTTP_201_CREATED, <<serialize(account)>>, account[1], ""),
               table |-> created, nextval |-> nextval + 1]

\* variant: the listing leaves out the first row
list_accounts_SkipFirst(table) ==
  [response |-> Reply(HTTP_200_OK, [i \in 1..(Len(all(table)) - 1) |-> serialize(all(table)[i + 1])], NoId, ""),
   table |-> table]

list_accounts(table) ==
  [response |-> Reply(HTTP_200_OK, [i \in 1..Len(all(table)) |-> serialize(all(table)[i])], NoId, ""),
   table |-> table]

get_accounts(table, account_id) ==
  LET account == find(table, account_id) IN
  IF account = NotFound
    THEN [response |-> except_exception("NotFound"), table |-> table]
    ELSE [response |-> Reply(HTTP_200_OK, <<serialize(account)>>, NoId, ""), table |-> table]

\* variant: answers 200 without account.update()
update_accounts_NoPersist(table, account_id, content_type, data) ==
  LET account == find(table, account_id) IN
  IF account = NotFound
    THEN [response |-> except_clauses("NotFound"), table |-> table]
  ELSE IF ~is_json(content_type)
    THEN [response |-> except_clauses("UnsupportedMediaType"), table |-> table]
  ELSE LET d == deserialize(account, data) IN
    IF d.raised # ""
      THEN [response |-> except_clauses(d.raised), table |-> table]
      ELSE [response |-> Reply(HTTP_200_OK, <<serialize(d.account)>>, NoId, ""),
            table |-> table]

\* variant: the fields assigned before the KeyError are persisted
update_accounts_PartialPersist(table, account_id, content_type, data) ==
  LET account == find(table, account_id) IN
  IF account = NotFound
    THEN [response |-> except_clauses("NotFound"), table |-> table]
  ELSE IF ~is_json(content_type)
    THEN [response |-> except_clauses("UnsupportedMediaType"), table |-> table]
  ELSE LET d == deserialize(account, data) IN
    IF d.raised # ""
      THEN [response |-> except_clauses(d.raised), table |-> update(table, d.account)]
      ELSE [response |-> Reply(HTTP_200_OK, <<serialize(d.account)>>, NoId, ""),
            table |-> update(table, d.account)]

\* variant: the id of the body replaces the id of the row
update_accounts_IdFromBody(table, account_id, content_type, data) ==
  LET account == find(table, account_id) IN
  IF account = NotFound
    THEN [response |-> except_clauses("NotFound"), table |-> table]
  ELSE IF ~is_json(content_type)
    THEN [response |-> except_clauses("UnsupportedMediaType"), table |-> table]
  ELSE LET d == deserialize(account, data) IN
    IF d.raised # ""
      THEN [response |-> except_clauses(d.raised), table |-> table]
      ELSE LET changed == IF data.id = NoId THEN d.account
                          ELSE <<data.id, d.account[2], d.account[3]>>
           IN [response |-> Reply(HTTP_200_OK, <<serialize(changed)>>, NoId, ""),
               table |-> [i \in 1..Len(table) |->
                            IF table[i][1] = account_id THEN changed ELSE table[i]]]

update_accounts(table, account_id, content_type, data) ==
  LET account == find(table, account_id) IN
  IF account = NotFound
    THEN [response |-> except_clauses("NotFound"), table |-> table]
  ELSE IF ~is_json(content_type)
    THEN [response |-> except_clauses("UnsupportedMediaType"), table |-> table]
  ELSE LET d == deserialize(account, data) IN
    IF d.raised # ""
      THEN [response |-> except_clauses(d.raised), table |-> table]
      ELSE [response |-> Reply(HTTP_200_OK, <<serialize(d.account)>>, NoId, ""),
            table |-> update(table, d.account)]

\* variant: a missing account is reported instead of ignored
delete_accounts_404(table, account_id) ==
  LET account == find(table, account_id) IN
  IF account = NotFound
    THEN [response |-> abort(HTTP_404_NOT_FOUND, "could not be found"), table |-> table]
    ELSE [response |-> Reply(HTTP_204_NO_CONTENT, <<>>, NoId, ""), table |-> delete(table, account)]

delete_accounts(table, account_id) ==
  LET account == find(table, account_id) IN
  [response |-> Reply(HTTP_204_NO_CONTENT, <<>>, NoId, ""),
   table |-> IF account # NotFound THEN delete(table, account) ELSE table]

(* ----------------------------------------------------------------- state *)
VARIABLES
  store,      \* the account table: a sequence of rows <<id, name, email>>
  seq,        \* the next value of the table's id sequence
  request,    \* the request handled last
  response,   \* its response
  ledger      \* what the responses so far told the clients: the accounts
              \* acknowledged as created / updated and not as deleted

vars == <<store, seq, request, response, ledger>>

Req(op, id, ct, data) == [op |-> op, id |-> id, content_type |-> ct, data |-> data]

\* the clients' bookkeeping of an acknowledged request
Acknowledge(led, req, resp) ==
  IF req.op = "POST" /\ resp.status = HTTP_201_CREATED
    THEN led \cup {[id |-> resp.location, name |-> req.data.name, email |-> req.data.email]}
  ELSE IF req.op = "PUT" /\ resp.status = HTTP_200_OK
    THEN {a \in led : a.id # req.id}
         \cup {[id |-> req.id, name |-> req.data.name, email |-> req.data.email]}
  ELSE IF req.op = "DELETE" /\ resp.status = HTTP_204_NO_CONTENT
    THEN {a \in led : a.id # req.id}
  ELSE led

Init ==
  /\ store = <<>>
  /\ seq = 1
  /\ request = Req("START", NoId, NoHeader, NoBody)
  /\ response = Reply(0, <<>>, NoId, "")
  /\ ledger = {}

Handled(req, r, nextval) ==
  /\ request' = req
  /\ response' = r.response
  /\ store' = r.table
  /\ seq' = nextval
  /\ ledger' = Acknowledge(ledger, req, r.response)

Health == Handled(Req("HEALTH", NoId, NoHeader, NoBody), [response |-> health, table |-> store], seq)

RootIndex == Handled(Req("INDEX", NoId, NoHeader, NoBody), [response |-> root_index, table |-> store], seq)

CreateAccounts ==
  \E ct \in ContentTypes, data \in Bodies :
    /\ seq <= MaxId
    /\ LET r == create_accounts(store, seq, ct, data)
       IN Handled(Req("POST", NoId, ct, data), r, r.nextval)

ListAccounts == Handled(Req("LIST", NoId, NoHeader, NoBody), list_accounts(store), seq)

GetAccounts ==
  \E id \in PathIds : Handled(Req("GET", id, NoHeader, NoBody), get_accounts(store, id), seq)

UpdateAccounts ==
  \E id \in PathIds, ct \in ContentTypes, data \in Bodies :
    Handled(Req("PUT", id, ct, data), update_accounts(store, id, ct, data), seq)

DeleteAccounts ==
  \E id \in PathIds : Handled(Req("DELETE", id, NoHeader, NoBody), delete_accounts(store, id), seq)

Next ==
  \/ Health
  \/ RootIndex
  \/ CreateAccounts
  \/ ListAccounts
  \/ GetAccounts
  \/ UpdateAccounts
  \/ DeleteAccounts

Spec == Init /\ [][Next]_vars

(* ---------------------------------------------------------------- claims *)
Ids(table) == {table[i][1] : i \in 1..Len(table)}
Valid(data) == data.name # Missing /\ data.email # Missing
Rep(id, data) == [id |-> id, name |-> data.name, email |-> data.email]
OtherRows(table, id) == SelectSeq(table, LAMBDA r : r[1] # id)
UniqueIds(table) == \A i, j \in 1..Len(table) : table[i][1] = table[j][1] => i = j

\* C1: GET /accounts/{id} on an id that is not in the store responds 404
\* and leaves the store unchanged.
C1_GetMissingIs404 ==
  [][(request'.op = "GET" /\ request'.id \notin Ids(store))
       => (response'.status = HTTP_404_NOT_FOUND /\ store' = store)]_vars

\* C2: PUT /accounts/{id} on an id that is not in the store responds 404
\* whatever the body is, and leaves the store unchanged.
C2_PutMissingIs404 ==
  [][(request'.op = "PUT" /\ request'.id \notin Ids(store))
       => (response'.status = HTTP_404_NOT_FOUND /\ store' = store)]_vars

\* C3: a POST or a PUT whose Content-Type is absent or is not
\* application/json responds 415 and leaves the store unchanged.
C3_NotJsonIs415 ==
  [][(request'.op \in {"POST", "PUT"} /\ request'.content_type # JSON)
       => (response'.status = HTTP_415_UNSUPPORTED_MEDIA_TYPE /\ store' = store)]_vars

\* what a PUT that succeeds does to the store and answers
PutApplied ==
  /\ response' = Reply(HTTP_200_OK, <<Rep(request'.id, request'.data)>>, NoId, "")
  /\ find(store', request'.id) = <<request'.id, request'.data.name, request'.data.email>>
  /\ Len(store') = Len(store)
  /\ \A i \in 1..Len(store) : store[i][1] # request'.id => store'[i] = store[i]

\* a GET on an id whose last acknowledged POST or PUT has not been followed
\* by an acknowledged DELETE returns 200 with the fields acknowledged last
GetReflectsLedger ==
  \A a \in ledger :
    (request'.op = "GET" /\ request'.id = a.id)
      => response' = Reply(HTTP_200_OK, <<a>>, NoId, "")

\* C4 as stated: PUT on an id in the store with a body holding all required
\* fields responds 200 with the updated representation, whatever the
\* Content-Type of the request.
C4_PutValidIs200 ==
  [][(request'.op = "PUT" /\ request'.id \in Ids(store) /\ Valid(request'.data))
       => PutApplied]_vars

\* C4 (amended): PUT, sent with Content-Type application/json, on an id in
\* the store with a body holding all required fields responds 200 with the
\* updated representation, changes no other account, and a later GET on the
\* id (no PUT or DELETE on it in between) returns 200 with exactly the
\* fields of that body under the same id.
C4_PutJsonValidPersists ==
  [][/\ (request'.op = "PUT" /\ request'.content_type = JSON
           /\ request'.id \in Ids(store) /\ Valid(request'.data)) => PutApplied
     /\ GetReflectsLedger]_vars

C4_Witness ==
  /\ request.op = "PUT" /\ request.content_type = JSON
  /\ response.status = HTTP_200_OK
  /\ Len(store) = 2
  /\ request.data.id \notin {NoId, request.id}
  /\ \E a \in ledger : a.id # request.id

\* C5: POST with Content-Type application/json and a body holding all
\* required fields responds 201 with the created representation and a
\* Location naming the new id; the store gains exactly that account, and a
\* GET on the Location's id issued next returns 200 with the same
\* representation.
C5_PostCreates ==
  [][/\ (request'.op = "POST" /\ request'.content_type = JSON /\ Valid(request'.data))
          => /\ response'.status = HTTP_201_CREATED
             /\ response'.location \notin Ids(store) \cup {NoId}
             /\ response'.accounts = <<Rep(response'.location, request'.data)>>
             /\ store' = Append(store, <<response'.location, request'.data.name,
                                         request'.data.email>>)
     /\ (request.op = "POST" /\ response.status = HTTP_201_CREATED
           /\ request'.op = "GET" /\ request'.id = response.location)
          => /\ response'.status = HTTP_200_OK
             /\ response'.accounts = response.accounts]_vars

C5_Witness ==
  /\ request.op = "POST" /\ response.status = HTTP_201_CREATED
  /\ find(store, response.location) # NotFound
  /\ request.data.id # NoId /\ request.data.id # response.location

\* C6 as stated: a body missing a required field is answered 400 with the
\* store unchanged, for POST with Content-Type application/json and for
\* every PUT on an existing id.
C6_MissingFieldIs400 ==
  [][(/\ ~Valid(request'.data)
      /\ \/ request'.op = "POST" /\ request'.content_type = JSON
         \/ request'.op = "PUT" /\ request'.id \in Ids(store))
       => (response'.status = HTTP_400_BAD_REQUEST /\ store' = store)]_vars

\* C6 (amended): a POST or a PUT on an existing id, sent with Content-Type
\* application/json and a body missing a required field, is answered 400
\* and leaves the store unchanged: no account is created and no field of
\* the account is overwritten.
C6_JsonMissingFieldIs400 ==
  [][(/\ ~Valid(request'.data)
      /\ request'.content_type = JSON
      /\ \/ request'.op = "POST"
         \/ request'.op = "PUT" /\ request'.id \in Ids(store))
       => (response'.status = HTTP_400_BAD_REQUEST /\ store' = store)]_vars

C6_Witness ==
  /\ request.op = "PUT" /\ request.content_type = JSON
  /\ response.status = HTTP_400_BAD_REQUEST
  /\ request.data.name # Missing /\ request.data.email = Missing
  /\ find(store, request.id) # NotFound
  /\ find(store, request.id)[2] # request.data.name

\* C7: DELETE responds 204 with an empty body for every id; afterwards the
\* id is not in the store, every other account is unchanged, a GET on the
\* id issued next does not return 200, and a repeated DELETE gives 204
\* again with the store unchanged.
C7_DeleteIdempotent ==
  [][/\ request'.op = "DELETE"
          => /\ response' = Reply(HTTP_204_NO_CONTENT, <<>>, NoId, "")
             /\ request'.id \notin Ids(store')
             /\ store' = OtherRows(store, request'.id)
     /\ (request.op = "DELETE" /\ request'.op = "GET" /\ request'.id = request.id)
          => response'.status # HTTP_200_OK
     /\ (request.op = "DELETE" /\ request'.op = "DELETE" /\ request'.id = request.id)
          => (response'.status = HTTP_204_NO_CONTENT /\ store' = store)]_vars

C7_Witness ==
  /\ request.op = "DELETE" /\ response.status = HTTP_204_NO_CONTENT
  /\ request.id \notin Ids(store)
  /\ request.id \notin {a.id : a \in ledger}
  /\ Len(store) = 1 /\ seq > MaxId

\* C8: no two accounts in the store share an id, ids come from the store's
\* sequence and are never handed out twice, and a PUT keeps every row under
\* its id even when the body carries another id.
C8_IdUniqueImmutable ==
  /\ [](UniqueIds(store) /\ \A id \in Ids(store) : id < seq)
  /\ [][/\ seq' >= seq
        /\ Ids(store') \ Ids(store) \subseteq {seq}
        /\ request'.op = "PUT"
             => /\ Len(store') = Len(store)
                /\ \A i \in 1..Len(store) : store'[i][1] = store[i][1]
                /\ response'.status = HTTP_200_OK
                     => response'.accounts[1].id = request'.id]_vars

C8_Witness ==
  /\ request.op = "PUT" /\ response.status = HTTP_200_OK
  /\ request.data.id # NoId /\ request.data.id # request.id
  /\ request.data.id \in Ids(store)
  /\ request.id \in Ids(store)

\* C9: GET /health responds 200 with the payload {"status": "OK"} and GET /
\* responds 200, whatever the store contains, and neither changes the store.
C9_HealthAndIndex ==
  [][/\ request'.op = "HEALTH"
          => /\ response' = Reply(HTTP_200_OK, <<>>, NoId, "OK")
             /\ store' = store /\ seq' = seq
     /\ request'.op = "INDEX"
          => /\ response'.status = HTTP_200_OK
             /\ store' = store /\ seq' = seq]_vars

C9_Witness ==
  /\ request.op = "HEALTH" /\ response.status = HTTP_200_OK
  /\ Len(store) = 2

\* C10: GET /accounts responds 200 with one representation per account in
\* the store and no others: exactly the accounts acknowledged as created
\* and not as deleted, each with the fields acknowledged last; the store is
\* unchanged, and an empty store gives an empty list.
C10_ListIsStore ==
  [][request'.op = "LIST"
       => /\ response'.status = HTTP_200_OK
          /\ Len(response'.accounts) = Len(store)
          /\ \A i \in 1..Len(store) : response'.accounts[i] = serialize(store[i])
          /\ {response'.accounts[i] : i \in 1..Len(response'.accounts)} = ledger
          /\ Cardinality(ledger) = Len(response'.accounts)
          /\ store = <<>> => response'.accounts = <<>>
          /\ store' = store]_vars

C10_Witness ==
  /\ request.op = "LIST" /\ response.status = HTTP_200_OK
  /\ Len(response.accounts) = 2
  /\ response.accounts[1].name # response.accounts[2].name

====
